---- MODULE Spec2Model ----
(***************************************************************************)
(* A model of bloque, a blocking FIFO queue for Go (bloque.go, options.go). *)
(*                                                                         *)
(* Goroutines call Push and Pop concurrently.  Every statement that runs   *)
(* under q.mutex is modelled with the mutex held; the places where a       *)
(* goroutine may be suspended (q.mutex.Lock, w.mutex.Lock, the select)     *)
(* are the boundaries of the actions.                                      *)
(***************************************************************************)
EXTENDS Integers, Sequences, FiniteSets, TLC

\* ---------------------------------------------------------------- bounds
NumProcs == 3          \* goroutines calling the queue
MaxCalls == 4          \* calls started in one behaviour, all goroutines together
MaxCancels == 1        \* contexts that end in one behaviour
MaxCapacity == 1       \* WithCapacity(0..MaxCapacity)
MaxWaiterLimit == 1    \* WithMaxPushWaiters / WithMaxPopWaiters (0..MaxWaiterLimit)

Procs == 1..NumProcs
NoProc == 0
NoWaiter == 0

\* ------------------------------------------------------------------ state
VARIABLES
    itemQueue,        \* q.itemQueue, front first
    pushWaitersList,  \* q.pushWaitersList: waiter ids, front first
    popWaitersList,   \* q.popWaitersList
    capacity,         \* q.capacity
    maxPushWaiters,   \* q.maxPushWaiters
    maxPopWaiters,    \* q.maxPopWaiters
    qmutex,           \* q.mutex: the goroutine holding it, or NoProc
    closed,           \* the closed flag of Close()
    closeInfo,        \* history: what Close() found when it ran
    waiters,          \* every waiter allocated so far, by id (its index)
    pc,               \* where each goroutine is
    op,               \* the call a goroutine is in (or was last in)
    item,             \* the item argument of a Push
    ctxDone,          \* ctx.Done() of the goroutine's current call is closed
    waiterItem,       \* the waiterItem local of the current loop iteration
    ulist,            \* the list argument of unblockNextWaiterLocked
    uw,               \* the w local of unblockNextWaiterLocked
    pending,          \* the value returned once unblockNextWaiterLocked is done
    result,           \* what the last call returned
    ncalls,           \* calls started so far
    ncancels,         \* contexts ended so far
    pushed,           \* history: items appended, in the order appended
    popped,           \* history: items removed, in the order removed
    firstW            \* history: the first waiter the current call registered

vars == <<itemQueue, pushWaitersList, popWaitersList, capacity, maxPushWaiters,
          maxPopWaiters, qmutex, closed, closeInfo, waiters, pc, op, item, ctxDone,
          waiterItem, ulist, uw, pending, result, ncalls, ncancels, pushed,
          popped,
          firstW>>

config == <<capacity, maxPushWaiters, maxPopWaiters>>
closing == <<closed, closeInfo>>
counters == <<ncalls, ncancels>>
locals == <<item, waiterItem, ulist, uw, pending>>
history == <<pushed, popped, firstW>>

\* ----------------------------------------------------------------- values
ErrNil == "nil"
ErrMaxWaiters == "ErrMaxWaiters"
ErrQueueClosed == "ErrQueueClosed"
ErrCtx == "ctx.Err()"

NoItem == 0
NoResult == [err |-> "none", val |-> NoItem]
Ret(e, v) == [err |-> e, val |-> v]

\* &waiter{waitChan: make(chan interface{}), waiting: true}, with for the
\* record the goroutine that made it, the list it is for, and how many
\* items had been appended by then.
NewWaiter(p, kind) ==
    [waiting |-> TRUE, fired |-> FALSE, chanClosed |-> FALSE,
     mutex |-> NoProc, owner |-> p, kind |-> kind, pushedBefore |-> Len(pushed)]

\* A PushBack that adds at the front (list.PushFront).
PushBackAtFront(l, x) == <<x>> \o l

\* list.PushBack, list.Front, list.Remove(Front) of container/list
PushBack(l, x) == Append(l, x)
Front(l) == Head(l)
RemoveFront(l) == Tail(l)

\* New(WithCapacity(c), WithMaxPushWaiters(m), WithMaxPopWaiters(n)): empty
\* lists, the options applied (0, the default, is unlimited).
Init ==
    /\ itemQueue = <<>>
    /\ pushWaitersList = <<>>
    /\ popWaitersList = <<>>
    /\ capacity \in 0..MaxCapacity
    /\ maxPushWaiters \in 0..MaxWaiterLimit
    /\ maxPopWaiters \in 0..MaxWaiterLimit
    /\ qmutex = NoProc
    /\ closed = FALSE
    /\ closeInfo = [woken |-> {}, len |-> 0, popped |-> 0]
    /\ waiters = <<>>
    /\ pc = [p \in Procs |-> "idle"]
    /\ op = [p \in Procs |-> "none"]
    /\ item = [p \in Procs |-> NoItem]
    /\ ctxDone = [p \in Procs |-> FALSE]
    /\ waiterItem = [p \in Procs |-> NoWaiter]
    /\ ulist = [p \in Procs |-> "none"]
    /\ uw = [p \in Procs |-> NoWaiter]
    /\ pending = [p \in Procs |-> NoResult]
    /\ result = [p \in Procs |-> NoResult]
    /\ ncalls = 0
    /\ ncancels = 0
    /\ pushed = <<>>
    /\ popped = <<>>
    /\ firstW = [p \in Procs |-> NoWaiter]

\* The locals of a call end with it.
DropLocals(p) ==
    /\ item' = [item EXCEPT ![p] = NoItem]
    /\ waiterItem' = [waiterItem EXCEPT ![p] = NoWaiter]
    /\ ulist' = [ulist EXCEPT ![p] = "none"]
    /\ uw' = [uw EXCEPT ![p] = NoWaiter]
    /\ pending' = [pending EXCEPT ![p] = NoResult]

\* return e, v
Return(p, e, v) ==
    /\ pc' = [pc EXCEPT ![p] = "idle"]
    /\ result' = [result EXCEPT ![p] = Ret(e, v)]
    /\ ctxDone' = [ctxDone EXCEPT ![p] = FALSE]
    /\ DropLocals(p)

\* q.mutex.Unlock(); return e, v
UnlockReturn(p, e, v) ==
    /\ qmutex' = NoProc
    /\ Return(p, e, v)

\* ------------------------------------------------------------------- Push
\* A loop condition without the q.capacity > 0 test.
PushFullNoUnbounded == Len(itemQueue) >= capacity

\* q.capacity > 0 && q.itemQueue.Len() >= q.capacity
PushFull == capacity > 0 /\ Len(itemQueue) >= capacity

\* A limit check that lets one waiter too many in (> for >=).
PushWaitersFullOffByOne ==
    maxPushWaiters > 0 /\ Len(pushWaitersList) > maxPushWaiters

\* q.maxPushWaiters > 0 && q.pushWaitersList.Len() >= q.maxPushWaiters
PushWaitersFull ==
    maxPushWaiters > 0 /\ Len(pushWaitersList) >= maxPushWaiters

\* Push after Close: the closed check, made with q.mutex held, before the
\* capacity and waiter-limit checks.
PushClosed(p) ==
    /\ UnlockReturn(p, ErrQueueClosed, NoItem)
    /\ UNCHANGED <<itemQueue, pushWaitersList, popWaitersList, waiters,
                   history>>

\* q.mutex.Unlock(); return ErrMaxWaiters
PushRejected(p) ==
    /\ UnlockReturn(p, ErrMaxWaiters, NoItem)
    /\ UNCHANGED <<itemQueue, pushWaitersList, popWaitersList, waiters,
                   history>>

\* A registration that goes to the select without q.mutex.Unlock().
PushRegisterKeepsLock(p) ==
    LET id == Len(waiters) + 1 IN
    /\ waiters' = Append(waiters, NewWaiter(p, "push"))
    /\ pushWaitersList' = PushBack(pushWaitersList, id)
    /\ waiterItem' = [waiterItem EXCEPT ![p] = id]
    /\ firstW' = [firstW EXCEPT ![p] = IF @ = NoWaiter THEN id ELSE @]
    /\ qmutex' = p
    /\ pc' = [pc EXCEPT ![p] = "push_select"]
    /\ UNCHANGED <<itemQueue, popWaitersList, ctxDone, item, ulist, uw,
                   pending, result, pushed, popped>>

\* waiterItem := &waiter{...}; q.pushWaitersList.PushBack(waiterItem);
\* q.mutex.Unlock(); the goroutine is now at the select.
PushRegister(p) ==
    LET id == Len(waiters) + 1 IN
    /\ waiters' = Append(waiters, NewWaiter(p, "push"))
    /\ pushWaitersList' = PushBack(pushWaitersList, id)
    /\ waiterItem' = [waiterItem EXCEPT ![p] = id]
    /\ firstW' = [firstW EXCEPT ![p] = IF @ = NoWaiter THEN id ELSE @]
    /\ qmutex' = NoProc
    /\ pc' = [pc EXCEPT ![p] = "push_select"]
    /\ UNCHANGED <<itemQueue, popWaitersList, ctxDone, item, ulist, uw,
                   pending, result, pushed, popped>>

\* A Push that wakes the wrong list after appending.
PushAppendWakesPushers(p) ==
    /\ itemQueue' = PushBack(itemQueue, item[p])
    /\ pushed' = Append(pushed, item[p])
    /\ pc' = [pc EXCEPT ![p] = "unblock"]
    /\ ulist' = [ulist EXCEPT ![p] = "push"]
    /\ pending' = [pending EXCEPT ![p] = Ret(ErrNil, NoItem)]
    /\ qmutex' = p
    /\ UNCHANGED <<pushWaitersList, popWaitersList, waiters, waiterItem,
                   ctxDone, item, uw, result, popped, firstW>>

\* q.itemQueue.PushBack(item); then q.unblockNextWaiterLocked(q.popWaitersList)
PushAppend(p) ==
    /\ itemQueue' = PushBack(itemQueue, item[p])
    /\ pushed' = Append(pushed, item[p])
    /\ pc' = [pc EXCEPT ![p] = "unblock"]
    /\ ulist' = [ulist EXCEPT ![p] = "pop"]
    /\ pending' = [pending EXCEPT ![p] = Ret(ErrNil, NoItem)]
    /\ qmutex' = p
    /\ UNCHANGED <<pushWaitersList, popWaitersList, waiters, waiterItem,
                   ctxDone, item, uw, result, popped, firstW>>

\* One pass of Push's for loop with q.mutex held, up to the next place the
\* goroutine can be suspended.
PushLoop(p) ==
    IF PushFull
    THEN IF PushWaitersFull THEN PushRejected(p) ELSE PushRegister(p)
    ELSE PushAppend(p)

\* The closed check, then the loop.
PushBody(p) == IF closed THEN PushClosed(p) ELSE PushLoop(p)

\* A goroutine calls Push(ctx, item) and reaches q.mutex.Lock().  The item
\* pushed by the n-th call of a behaviour is n.
PushCall(p) ==
    /\ pc[p] = "idle"
    /\ ncalls < MaxCalls
    /\ ncalls' = ncalls + 1
    /\ op' = [op EXCEPT ![p] = "Push"]
    /\ item' = [item EXCEPT ![p] = ncalls + 1]
    /\ result' = [result EXCEPT ![p] = NoResult]
    /\ firstW' = [firstW EXCEPT ![p] = NoWaiter]
    /\ pc' = [pc EXCEPT ![p] = "push_lock"]
    /\ UNCHANGED <<ncancels, itemQueue, pushWaitersList, popWaitersList, config,
                   qmutex,
                   closing, waiters, ctxDone, waiterItem, ulist, uw, pending,
                   pushed, popped>>

\* q.mutex.Lock() and the first pass of the loop.
PushLock(p) ==
    /\ pc[p] = "push_lock"
    /\ qmutex = NoProc
    /\ PushBody(p)
    /\ UNCHANGED <<config, closing, op, counters>>

\* A woken Push that appends without checking the capacity again (an if
\* where the for is).
PushWakeNoRecheck(p) ==
    /\ pc[p] = "push_select"
    /\ waiters[waiterItem[p]].chanClosed
    /\ qmutex = NoProc
    /\ PushAppend(p)
    /\ UNCHANGED <<config, closing, op, counters>>

\* case <-waiterItem.waitChan: q.mutex.Lock(); continue, and the next pass.
PushWake(p) ==
    /\ pc[p] = "push_select"
    /\ waiters[waiterItem[p]].chanClosed
    /\ qmutex = NoProc
    /\ PushBody(p)
    /\ UNCHANGED <<config, closing, op, counters>>

\* case <-ctx.Done(): waiterItem.mutex.Lock()
PushCancelLock(p) ==
    /\ pc[p] = "push_select"
    /\ ctxDone[p]
    /\ waiters[waiterItem[p]].mutex = NoProc
    /\ waiters' = [waiters EXCEPT ![waiterItem[p]].mutex = p]
    /\ pc' = [pc EXCEPT ![p] = "push_cancel"]
    /\ UNCHANGED <<itemQueue, pushWaitersList, popWaitersList, config, qmutex,
                   closing, op, ctxDone, locals, result, counters, history>>

\* A cancelled Push that leaves its item in the queue all the same.
PushCancelSetAppends(p) ==
    /\ pc[p] = "push_cancel"
    /\ waiters' = [waiters EXCEPT ![waiterItem[p]].waiting = FALSE,
                                  ![waiterItem[p]].mutex = NoProc]
    /\ IF waiters[waiterItem[p]].fired
       THEN /\ pc' = [pc EXCEPT ![p] = "push_forward"]
            /\ UNCHANGED <<result, ctxDone, locals>>
       ELSE Return(p, ErrCtx, NoItem)
    /\ itemQueue' = PushBack(itemQueue, item[p])
    /\ pushed' = Append(pushed, item[p])
    /\ UNCHANGED <<pushWaitersList, popWaitersList, config, qmutex,
                   closing, op, counters, popped, firstW>>

\* waiterItem.waiting = false; if waiterItem.fired { Unlock; (forward) }
\* else { Unlock }; return ctx.Err()
PushCancelSet(p) ==
    /\ pc[p] = "push_cancel"
    /\ waiters' = [waiters EXCEPT ![waiterItem[p]].waiting = FALSE,
                                  ![waiterItem[p]].mutex = NoProc]
    /\ IF waiters[waiterItem[p]].fired
       THEN /\ pc' = [pc EXCEPT ![p] = "push_forward"]
            /\ UNCHANGED <<result, ctxDone, locals>>
       ELSE Return(p, ErrCtx, NoItem)
    /\ UNCHANGED <<itemQueue, pushWaitersList, popWaitersList, config, qmutex,
                   closing, op, counters, history>>

\* A forward that wakes the other list (q.popWaitersList from Push).
PushForwardWrongList(p) ==
    /\ pc[p] = "push_forward"
    /\ qmutex = NoProc
    /\ qmutex' = p
    /\ pc' = [pc EXCEPT ![p] = "unblock"]
    /\ ulist' = [ulist EXCEPT ![p] = "pop"]
    /\ pending' = [pending EXCEPT ![p] = Ret(ErrCtx, NoItem)]
    /\ UNCHANGED <<itemQueue, pushWaitersList, popWaitersList, config, closing,
                   waiters, op, item, ctxDone, waiterItem, uw, result, counters,
                   history>>

\* race detected: q.mutex.Lock(); q.unblockNextWaiterLocked(q.pushWaitersList)
PushForward(p) ==
    /\ pc[p] = "push_forward"
    /\ qmutex = NoProc
    /\ qmutex' = p
    /\ pc' = [pc EXCEPT ![p] = "unblock"]
    /\ ulist' = [ulist EXCEPT ![p] = "push"]
    /\ pending' = [pending EXCEPT ![p] = Ret(ErrCtx, NoItem)]
    /\ UNCHANGED <<itemQueue, pushWaitersList, popWaitersList, config, closing,
                   waiters, op, item, ctxDone, waiterItem, uw, result, counters,
                   history>>

\* -------------------------------------------------------------------- Pop
\* q.itemQueue.Len() == 0
PopEmpty == Len(itemQueue) = 0

\* A limit check that lets one waiter too many register (> for >=).
PopWaitersFullOffByOne ==
    maxPopWaiters > 0 /\ Len(popWaitersList) > maxPopWaiters

\* A limit check that turns callers away one waiter early.
PopWaitersFullEarly ==
    maxPopWaiters > 0 /\ Len(popWaitersList) + 1 >= maxPopWaiters

\* q.maxPopWaiters > 0 && q.popWaitersList.Len() >= q.maxPopWaiters
PopWaitersFull ==
    maxPopWaiters > 0 /\ Len(popWaitersList) >= maxPopWaiters

\* Pop after Close on a drained queue: the closed check, made with q.mutex
\* held, before the waiter-limit check.
PopClosed(p) ==
    /\ UnlockReturn(p, ErrQueueClosed, NoItem)
    /\ UNCHANGED <<itemQueue, pushWaitersList, popWaitersList, waiters,
                   history>>

\* q.mutex.Unlock(); return nil, ErrMaxWaiters
PopRejected(p) ==
    /\ UnlockReturn(p, ErrMaxWaiters, NoItem)
    /\ UNCHANGED <<itemQueue, pushWaitersList, popWaitersList, waiters,
                   history>>

\* waiterItem := &waiter{...}; q.popWaitersList.PushBack(waiterItem);
\* q.mutex.Unlock(); the goroutine is now at the select.
PopRegister(p) ==
    LET id == Len(waiters) + 1 IN
    /\ waiters' = Append(waiters, NewWaiter(p, "pop"))
    /\ popWaitersList' = PushBack(popWaitersList, id)
    /\ waiterItem' = [waiterItem EXCEPT ![p] = id]
    /\ firstW' = [firstW EXCEPT ![p] = IF @ = NoWaiter THEN id ELSE @]
    /\ qmutex' = NoProc
    /\ pc' = [pc EXCEPT ![p] = "pop_select"]
    /\ UNCHANGED <<itemQueue, pushWaitersList, ctxDone, item, ulist, uw,
                   pending, result, pushed, popped>>

\* A Pop that returns the front item and leaves it in the buffer.
PopRemovePeeks(p) ==
    LET val == Front(itemQueue) IN
    /\ popped' = Append(popped, val)
    /\ pc' = [pc EXCEPT ![p] = "unblock"]
    /\ ulist' = [ulist EXCEPT ![p] = "push"]
    /\ pending' = [pending EXCEPT ![p] = Ret(ErrNil, val)]
    /\ qmutex' = p
    /\ UNCHANGED <<itemQueue, pushWaitersList, popWaitersList, waiters,
                   waiterItem, ctxDone, item, uw, result, pushed, firstW>>

\* el := q.itemQueue.Front(); val := q.itemQueue.Remove(el);
\* then q.unblockNextWaiterLocked(q.pushWaitersList)
PopRemove(p) ==
    LET val == Front(itemQueue) IN
    /\ itemQueue' = RemoveFront(itemQueue)
    /\ popped' = Append(popped, val)
    /\ pc' = [pc EXCEPT ![p] = "unblock"]
    /\ ulist' = [ulist EXCEPT ![p] = "push"]
    /\ pending' = [pending EXCEPT ![p] = Ret(ErrNil, val)]
    /\ qmutex' = p
    /\ UNCHANGED <<pushWaitersList, popWaitersList, waiters, waiterItem,
                   ctxDone, item, uw, result, pushed, firstW>>

\* One pass of Pop's for loop with q.mutex held, up to the next place the
\* goroutine can be suspended.
PopLoop(p) ==
    IF PopEmpty
    THEN IF PopWaitersFull THEN PopRejected(p) ELSE PopRegister(p)
    ELSE PopRemove(p)

\* A closed check that does not let a closed queue be drained.
PopBodyNoDrain(p) == IF closed THEN PopClosed(p) ELSE PopLoop(p)

\* The closed check (a closed queue is still drained), then the loop.
PopBody(p) == IF closed /\ PopEmpty THEN PopClosed(p) ELSE PopLoop(p)

\* A goroutine calls Pop(ctx) and reaches q.mutex.Lock().
PopCall(p) ==
    /\ pc[p] = "idle"
    /\ ncalls < MaxCalls
    /\ ncalls' = ncalls + 1
    /\ op' = [op EXCEPT ![p] = "Pop"]
    /\ result' = [result EXCEPT ![p] = NoResult]
    /\ firstW' = [firstW EXCEPT ![p] = NoWaiter]
    /\ pc' = [pc EXCEPT ![p] = "pop_lock"]
    /\ UNCHANGED <<ncancels, itemQueue, pushWaitersList, popWaitersList, config,
                   qmutex,
                   closing, waiters, ctxDone, locals, pushed, popped>>

\* q.mutex.Lock() and the first pass of the loop.
PopLock(p) ==
    /\ pc[p] = "pop_lock"
    /\ qmutex = NoProc
    /\ PopBody(p)
    /\ UNCHANGED <<config, closing, op, counters>>

\* case <-waiterItem.waitChan: q.mutex.Lock(); continue, and the next pass.
PopWake(p) ==
    /\ pc[p] = "pop_select"
    /\ waiters[waiterItem[p]].chanClosed
    /\ qmutex = NoProc
    /\ PopBody(p)
    /\ UNCHANGED <<config, closing, op, counters>>

\* case <-ctx.Done(): waiterItem.mutex.Lock()
PopCancelLock(p) ==
    /\ pc[p] = "pop_select"
    /\ ctxDone[p]
    /\ waiters[waiterItem[p]].mutex = NoProc
    /\ waiters' = [waiters EXCEPT ![waiterItem[p]].mutex = p]
    /\ pc' = [pc EXCEPT ![p] = "pop_cancel"]
    /\ UNCHANGED <<itemQueue, pushWaitersList, popWaitersList, config, qmutex,
                   closing, op, ctxDone, locals, result, counters, history>>

\* A cancelled Pop that does not pass a signal it was sent on to the next
\* waiter.
PopCancelSetNoForward(p) ==
    /\ pc[p] = "pop_cancel"
    /\ waiters' = [waiters EXCEPT ![waiterItem[p]].waiting = FALSE,
                                  ![waiterItem[p]].mutex = NoProc]
    /\ Return(p, ErrCtx, NoItem)
    /\ UNCHANGED <<itemQueue, pushWaitersList, popWaitersList, config, qmutex,
                   closing, op, counters, history>>

\* A ctx.Done() branch that goes back to the select instead of returning.
PopCancelSetRetries(p) ==
    /\ pc[p] = "pop_cancel"
    /\ waiters' = [waiters EXCEPT ![waiterItem[p]].waiting = FALSE,
                                  ![waiterItem[p]].mutex = NoProc]
    /\ pc' = [pc EXCEPT ![p] = "pop_select"]
    /\ UNCHANGED <<result, ctxDone, locals>>
    /\ UNCHANGED <<itemQueue, pushWaitersList, popWaitersList, config, qmutex,
                   closing, op, counters, history>>

\* waiterItem.waiting = false; if waiterItem.fired { Unlock; (forward) }
\* else { Unlock }; return nil, ctx.Err()
PopCancelSet(p) ==
    /\ pc[p] = "pop_cancel"
    /\ waiters' = [waiters EXCEPT ![waiterItem[p]].waiting = FALSE,
                                  ![waiterItem[p]].mutex = NoProc]
    /\ IF waiters[waiterItem[p]].fired
       THEN /\ pc' = [pc EXCEPT ![p] = "pop_forward"]
            /\ UNCHANGED <<result, ctxDone, locals>>
       ELSE Return(p, ErrCtx, NoItem)
    /\ UNCHANGED <<itemQueue, pushWaitersList, popWaitersList, config, qmutex,
                   closing, op, counters, history>>

\* race detected: q.mutex.Lock(); q.unblockNextWaiterLocked(q.popWaitersList)
PopForward(p) ==
    /\ pc[p] = "pop_forward"
    /\ qmutex = NoProc
    /\ qmutex' = p
    /\ pc' = [pc EXCEPT ![p] = "unblock"]
    /\ ulist' = [ulist EXCEPT ![p] = "pop"]
    /\ pending' = [pending EXCEPT ![p] = Ret(ErrCtx, NoItem)]
    /\ UNCHANGED <<itemQueue, pushWaitersList, popWaitersList, config, closing,
                   waiters, op, item, ctxDone, waiterItem, uw, result, counters,
                   history>>

\* ------------------------------------------------ unblockNextWaiterLocked
\* The list unblockNextWaiterLocked was called on.
UList(p) == IF ulist[p] = "push" THEN pushWaitersList ELSE popWaitersList

\* for waiters.Len() > 0 is false: the function returns, and its caller
\* unlocks q.mutex and returns.
UnblockEmpty(p) ==
    /\ pc[p] = "unblock"
    /\ UList(p) = <<>>
    /\ UnlockReturn(p, pending[p].err, pending[p].val)
    /\ UNCHANGED <<itemQueue, pushWaitersList, popWaitersList, config, closing,
                   waiters, op, counters, history>>

\* An unblockNextWaiterLocked that reads the front entry without
\* waiters.Remove(el).
UnblockTakeKeeps(p) ==
    /\ pc[p] = "unblock"
    /\ UList(p) # <<>>
    /\ LET w == Front(UList(p)) IN
       /\ waiters[w].mutex = NoProc
       /\ waiters' = [waiters EXCEPT ![w].mutex = p]
       /\ uw' = [uw EXCEPT ![p] = w]
    /\ pc' = [pc EXCEPT ![p] = "unblock_check"]
    /\ UNCHANGED <<pushWaitersList, popWaitersList, itemQueue, config, qmutex,
                   closing, op, item, ctxDone, waiterItem, ulist, pending,
                   result, counters, history>>

\* An unblockNextWaiterLocked that takes the newest waiter (waiters.Back()).
UnblockTakeBack(p) ==
    /\ pc[p] = "unblock"
    /\ UList(p) # <<>>
    /\ LET w == UList(p)[Len(UList(p))] IN
       /\ waiters[w].mutex = NoProc
       /\ waiters' = [waiters EXCEPT ![w].mutex = p]
       /\ uw' = [uw EXCEPT ![p] = w]
    /\ IF ulist[p] = "push"
       THEN /\ pushWaitersList' = SubSeq(pushWaitersList, 1, Len(pushWaitersList) - 1)
            /\ UNCHANGED popWaitersList
       ELSE /\ popWaitersList' = SubSeq(popWaitersList, 1, Len(popWaitersList) - 1)
            /\ UNCHANGED pushWaitersList
    /\ pc' = [pc EXCEPT ![p] = "unblock_check"]
    /\ UNCHANGED <<itemQueue, config, qmutex, closing, op, item, ctxDone,
                   waiterItem, ulist, pending, result, counters, history>>

\* el := waiters.Front(); w := waiters.Remove(el).(*waiter); w.mutex.Lock()
UnblockTake(p) ==
    /\ pc[p] = "unblock"
    /\ UList(p) # <<>>
    /\ LET w == Front(UList(p)) IN
       /\ waiters[w].mutex = NoProc
       /\ waiters' = [waiters EXCEPT ![w].mutex = p]
       /\ uw' = [uw EXCEPT ![p] = w]
    /\ IF ulist[p] = "push"
       THEN /\ pushWaitersList' = RemoveFront(pushWaitersList)
            /\ UNCHANGED popWaitersList
       ELSE /\ popWaitersList' = RemoveFront(popWaitersList)
            /\ UNCHANGED pushWaitersList
    /\ pc' = [pc EXCEPT ![p] = "unblock_check"]
    /\ UNCHANGED <<itemQueue, config, qmutex, closing, op, item, ctxDone,
                   waiterItem, ulist, pending, result, counters, history>>

\* A wake that closes the channel and forgets w.fired = true.
FireNoFlag(w) == [w EXCEPT !.chanClosed = TRUE, !.mutex = NoProc]

\* close(w.waitChan); w.fired = true; w.mutex.Unlock()
Fire(w) == [w EXCEPT !.chanClosed = TRUE, !.fired = TRUE, !.mutex = NoProc]

\* An unblockNextWaiterLocked without the return after firing: it goes on
\* to the next entry.
UnblockCheckNoReturn(p) ==
    /\ pc[p] = "unblock_check"
    /\ waiters' = [waiters EXCEPT ![uw[p]] = IF @.waiting THEN Fire(@) ELSE @]
    /\ pc' = [pc EXCEPT ![p] = "unblock"]
    /\ UNCHANGED <<qmutex, result, ctxDone, locals>>
    /\ UNCHANGED <<itemQueue, pushWaitersList, popWaitersList, config, closing,
                   op, counters, history>>

\* if w.waiting { close(w.waitChan); w.fired = true; w.mutex.Unlock(); return }
\* and the caller unlocks q.mutex and returns; otherwise the loop goes on,
\* with w.mutex left locked.
UnblockCheck(p) ==
    /\ pc[p] = "unblock_check"
    /\ IF waiters[uw[p]].waiting
       THEN /\ waiters' = [waiters EXCEPT ![uw[p]] = Fire(@)]
            /\ UnlockReturn(p, pending[p].err, pending[p].val)
       ELSE /\ pc' = [pc EXCEPT ![p] = "unblock"]
            /\ UNCHANGED <<waiters, qmutex, result, ctxDone, locals>>
    /\ UNCHANGED <<itemQueue, pushWaitersList, popWaitersList, config, closing,
                   op, counters, history>>

\* ------------------------------------------------------------ environment
\* The context of a call is cancelled or reaches its deadline: while the
\* call is blocked in its select, or before it has taken q.mutex (a call
\* made with a context that is already done).  A call reads ctx only in its
\* select, so a cancellation elsewhere in the call is the one that comes as
\* the call reaches the select.
Cancel(p) ==
    /\ pc[p] \in {"push_lock", "pop_lock", "push_select", "pop_select"}
    /\ ~ctxDone[p]
    /\ ncancels < MaxCancels
    /\ ncancels' = ncancels + 1
    /\ ctxDone' = [ctxDone EXCEPT ![p] = TRUE]
    /\ UNCHANGED <<itemQueue, pushWaitersList, popWaitersList, config, qmutex,
                   closing, waiters, pc, op, locals, result, ncalls, history>>

\* The waiters registered in either list.
Listed == {pushWaitersList[i] : i \in DOMAIN pushWaitersList}
              \cup {popWaitersList[i] : i \in DOMAIN popWaitersList}

\* Close wakes a registered waiter as unblockNextWaiterLocked does:
\* w.mutex.Lock(), and if w.waiting, close(w.waitChan), w.fired = true.
CloseWake(w) == IF w.waiting THEN Fire(w) ELSE [w EXCEPT !.mutex = NumProcs + 1]

\* A Close that wakes only the oldest waiter of each list.
CloseWakesOne ==
    /\ ~closed
    /\ qmutex = NoProc
    /\ \A w \in Listed : waiters[w].mutex = NoProc
    /\ closed' = TRUE
    /\ closeInfo' = [woken |-> {w \in Listed : waiters[w].waiting},
                     len |-> Len(itemQueue), popped |-> Len(popped)]
    /\ LET first == {l[1] : l \in {pushWaitersList, popWaitersList} \ {<<>>}} IN
       waiters' = [w \in DOMAIN waiters |->
                      IF w \in first THEN CloseWake(waiters[w])
                      ELSE waiters[w]]
    /\ pushWaitersList' = <<>>
    /\ popWaitersList' = <<>>
    /\ UNCHANGED <<itemQueue, config, qmutex, pc, op, ctxDone, locals, result,
                   counters, history>>

\* Close(): under q.mutex, set closed and wake every registered waiter of
\* both lists, not just one of each.
Close ==
    /\ ~closed
    /\ qmutex = NoProc
    /\ \A w \in Listed : waiters[w].mutex = NoProc
    /\ closed' = TRUE
    /\ closeInfo' = [woken |-> {w \in Listed : waiters[w].waiting},
                     len |-> Len(itemQueue), popped |-> Len(popped)]
    /\ waiters' = [w \in DOMAIN waiters |->
                      IF w \in Listed THEN CloseWake(waiters[w])
                      ELSE waiters[w]]
    /\ pushWaitersList' = <<>>
    /\ popWaitersList' = <<>>
    /\ UNCHANGED <<itemQueue, config, qmutex, pc, op, ctxDone, locals, result,
                   counters, history>>

\* ---------------------------------------------------------- specification
\* A step of a call in progress that is not on its cancellation path.
Proceed(p) ==
    \/ PushLock(p)
    \/ PushWake(p)
    \/ PopLock(p)
    \/ PopWake(p)
    \/ UnblockEmpty(p)
    \/ UnblockTake(p)
    \/ UnblockCheck(p)

\* A step of the cancellation path of a call.
Abandon(p) ==
    \/ PushCancelLock(p)
    \/ PushCancelSet(p)
    \/ PushForward(p)
    \/ PopCancelLock(p)
    \/ PopCancelSet(p)
    \/ PopForward(p)

\* A step of a call in progress.
Progress(p) == Proceed(p) \/ Abandon(p)

Next ==
    \/ \E p \in Procs : PushCall(p)
    \/ \E p \in Procs : PopCall(p)
    \/ \E p \in Procs : Proceed(p)
    \/ \E p \in Procs : Abandon(p)
    \/ \E p \in Procs : Cancel(p)
    \/ Close

Spec == Init /\ [][Next]_vars

\* The queues of the liveness properties: no limit on the waiters.
InitFair == Init /\ maxPushWaiters = 0 /\ maxPopWaiters = 0

\* The Go scheduler runs every goroutine that can run, and a goroutine
\* waiting for a sync.Mutex gets it once it stays free: a call in progress
\* takes its next step.  Nothing makes a caller start a call, a context end,
\* or anyone close the queue.
Fairness == \A p \in Procs : WF_vars(Progress(p))

\* A queue that nobody closes.
NextOpen ==
    \/ \E p \in Procs : PushCall(p)
    \/ \E p \in Procs : PopCall(p)
    \/ \E p \in Procs : Proceed(p)
    \/ \E p \in Procs : Abandon(p)
    \/ \E p \in Procs : Cancel(p)

FairSpec == InitFair /\ [][NextOpen]_vars /\ Fairness

\* The queues with one limit for both kinds of waiters, or none.
InitSameLimit == Init /\ maxPopWaiters = maxPushWaiters

\* A queue that nobody closes, with or without waiter limits.
OpenFairSpec == InitSameLimit /\ [][NextOpen]_vars /\ Fairness

\* Callers whose contexts never end (context.Background()), and a Close.
NextBackground ==
    \/ \E p \in Procs : PushCall(p)
    \/ \E p \in Procs : PopCall(p)
    \/ \E p \in Procs : Proceed(p)
    \/ Close

CloseFairSpec == InitFair /\ [][NextBackground]_vars /\ Fairness

\* ================================================================ claims
Range(f) == {f[i] : i \in DOMAIN f}
IsPrefix(s, t) == Len(s) <= Len(t) /\ s = SubSeq(t, 1, Len(s))

\* The call of p is blocked in its select.
Blocked(p) == pc[p] \in {"push_select", "pop_select"}
\* p is on the cancellation path of its call.
Cancelling(p) ==
    \/ pc[p] \in {"push_cancel", "pop_cancel", "push_forward", "pop_forward"}
    \/ pc[p] \in {"unblock", "unblock_check"} /\ pending[p].err = ErrCtx
\* This step is the return of p's call.
Returns(p) == pc[p] # "idle" /\ pc'[p] = "idle"
\* This step is a step of p.
Steps(p) == pc'[p] # pc[p]

\* C1: FIFO item order.  The items removed by Pops, in the order they were
\* removed under q.mutex, are a prefix of the items appended by Pushes, in
\* the order they were appended under q.mutex; a Pop that has returned nil
\* returned an item that was removed.
C1_FifoOrder ==
    /\ IsPrefix(popped, pushed)
    /\ \A p \in Procs :
          (op[p] = "Pop" /\ result[p].err = ErrNil) => result[p].val \in Range(popped)

\* Two Pushes, then two Pops that gave the items back in push order.
C1_Witness ==
    /\ Len(pushed) = 2
    /\ popped = pushed
    /\ \A p \in Procs : pc[p] = "idle"

\* C2: capacity bound.  With capacity > 0, whenever q.mutex is not held the
\* queue holds at most capacity items.
C2_CapacityBound ==
    (capacity > 0 /\ qmutex = NoProc) => Len(itemQueue) <= capacity

\* A woken push waiter finds the slot it was woken for taken by another Push.
C2_Witness ==
    /\ capacity > 0
    /\ qmutex = NoProc
    /\ Len(itemQueue) = capacity
    /\ \E p \in Procs :
          /\ pc[p] = "push_select"
          /\ waiters[waiterItem[p]].fired
          /\ ~ctxDone[p]
          /\ ~closed

\* C3: cancellation has no effect on the buffer.  A blocked call whose
\* context is done while its signal has not fired takes the cancellation
\* path when it moves; no step of a call on the cancellation path changes
\* the items; the path stays the cancellation path until the call returns
\* ctx.Err(); and a Push that returns ctx.Err() has not appended its item.
C3_CancelNoEffect ==
    [][\A p \in Procs :
          ( /\ Steps(p)
            /\ \/ Cancelling(p)
               \/ Blocked(p) /\ ctxDone[p] /\ ~waiters[waiterItem[p]].chanClosed )
          => /\ itemQueue' = itemQueue
             /\ pushed' = pushed
             /\ popped' = popped
             /\ IF pc'[p] = "idle"
                THEN /\ result'[p] = Ret(ErrCtx, NoItem)
                     /\ op[p] = "Push" => item[p] \notin Range(pushed')
                ELSE Cancelling(p)']_vars

\* With capacity 1 a blocked Push was cancelled and the buffer still holds
\* exactly the one item.
C3_Witness ==
    /\ capacity = 1
    /\ Len(itemQueue) = 1
    /\ \E p \in Procs :
          /\ op[p] = "Push"
          /\ pc[p] = "idle"
          /\ result[p].err = ErrCtx
          /\ firstW[p] # NoWaiter

\* C4: waiter-limit rejection.  A Push that takes q.mutex on an open queue
\* with the buffer full and the push-waiter list at maxPushWaiters returns
\* ErrMaxWaiters in that step, and a Pop that takes it on an open, empty
\* queue with the pop-waiter list at maxPopWaiters does; the step allocates
\* no waiter and changes neither the items nor either waiter list.
C4_WaiterLimitRejection ==
    [][\A p \in Procs :
          ( /\ Steps(p)
            /\ ~closed
            /\ \/ /\ pc[p] \in {"push_lock", "push_select"}
                  /\ pc'[p] # "push_cancel"
                  /\ capacity > 0 /\ Len(itemQueue) >= capacity
                  /\ maxPushWaiters > 0
                  /\ Len(pushWaitersList) >= maxPushWaiters
               \/ /\ pc[p] \in {"pop_lock", "pop_select"}
                  /\ pc'[p] # "pop_cancel"
                  /\ Len(itemQueue) = 0
                  /\ maxPopWaiters > 0
                  /\ Len(popWaitersList) >= maxPopWaiters )
          => /\ pc'[p] = "idle"
             /\ result'[p] = Ret(ErrMaxWaiters, NoItem)
             /\ waiters' = waiters
             /\ itemQueue' = itemQueue
             /\ pushWaitersList' = pushWaitersList
             /\ popWaitersList' = popWaitersList]_vars

\* capacity = 1, maxPushWaiters = 1: the buffer is full, one Push is blocked
\* and another Push has returned ErrMaxWaiters without ever waiting.
C4_Witness ==
    /\ capacity = 1
    /\ maxPushWaiters = 1
    /\ Len(itemQueue) = 1
    /\ \E p, q \in Procs :
          /\ pc[p] = "push_select"
          /\ ~waiters[waiterItem[p]].fired
          /\ op[q] = "Push"
          /\ pc[q] = "idle"
          /\ result[q].err = ErrMaxWaiters
          /\ firstW[q] = NoWaiter

\* C5: Close drains, then rejects.  Once the queue is closed nothing is
\* appended; a Push that takes q.mutex returns ErrQueueClosed and leaves the
\* items alone; a Pop that takes q.mutex removes the front item while there
\* is one, and returns it, and returns ErrQueueClosed once there is none.
C5_CloseDrainsThenRejects ==
    [][\A p \in Procs :
          (Steps(p) /\ closed)
          => /\ pushed' = pushed
             /\ pc[p] = "push_lock"
                => /\ pc'[p] = "idle"
                   /\ result'[p] = Ret(ErrQueueClosed, NoItem)
                   /\ itemQueue' = itemQueue
             /\ pc[p] = "pop_lock"
                => IF Len(itemQueue) > 0
                   THEN /\ itemQueue' = Tail(itemQueue)
                        /\ popped' = Append(popped, Head(itemQueue))
                        /\ pending'[p] = Ret(ErrNil, Head(itemQueue))
                   ELSE /\ pc'[p] = "idle"
                        /\ result'[p] = Ret(ErrQueueClosed, NoItem)
                        /\ popped' = popped
             /\ (Returns(p) /\ op[p] = "Pop" /\ pending[p].err = ErrNil)
                => result'[p] = pending[p]]_vars

\* push; Close; a Pop gave the item back; the next Pop and a Push returned
\* ErrQueueClosed.
C5_Witness ==
    /\ closed
    /\ closeInfo.len = 1
    /\ Len(popped) = closeInfo.popped + 1
    /\ itemQueue = <<>>
    /\ \E p, q, r \in Procs :
          /\ op[p] = "Pop" /\ pc[p] = "idle" /\ result[p] = Ret(ErrNil, pushed[1])
          /\ op[q] = "Pop" /\ pc[q] = "idle" /\ result[q].err = ErrQueueClosed
          /\ op[r] = "Push" /\ pc[r] = "idle" /\ result[r].err = ErrQueueClosed

\* The call of p was blocked, its waiter registered and still waiting, when
\* Close ran.
BlockedAtClose(p) == waiterItem[p] \in closeInfo.woken

\* C6: Close unblocks waiters.  With contexts that never end: once the
\* queue is closed every call still in its select has its signal closed; a
\* Push that was blocked when Close ran, and a Pop that was blocked on an
\* empty queue when Close ran, returns nothing but ErrQueueClosed; and under
\* fair scheduling it does return.
C6_CloseUnblocksWaiters ==
    /\ [](closed => \A p \in Procs :
             Blocked(p) => waiters[waiterItem[p]].chanClosed)
    /\ [][\A p \in Procs :
             ( /\ Returns(p)
               /\ BlockedAtClose(p)
               /\ op[p] = "Push" \/ closeInfo.len = 0 )
             => result'[p] = Ret(ErrQueueClosed, NoItem)]_vars
    /\ \A p \in Procs :
          BlockedAtClose(p) ~> (pc[p] = "idle" /\ result[p].err # "none")

\* Two calls of a kind, neither context done, were blocked when Close ran
\* and both have returned ErrQueueClosed.
C6_Witness ==
    \E p, q \in Procs :
       /\ p # q
       /\ op[p] = op[q]
       /\ pc[p] = "idle" /\ result[p].err = ErrQueueClosed
       /\ pc[q] = "idle" /\ result[q].err = ErrQueueClosed
       /\ {firstW[p], firstW[q]} \subseteq closeInfo.woken

\* The Pop calls of a and b registered the first two waiters of the queue,
\* both before anything was pushed, and two items have been appended since.
TwoPopsTwoPushes(a, b) ==
    /\ op[a] = "Pop" /\ firstW[a] = 1
    /\ op[b] = "Pop" /\ firstW[b] = 2
    /\ waiters[2].pushedBefore = 0
    /\ Len(pushed) = 2

\* Both calls have returned an item, not the same one, and the queue is empty.
Delivered(a, b) ==
    /\ pc[a] = "idle" /\ result[a].err = ErrNil
    /\ pc[b] = "idle" /\ result[b].err = ErrNil
    /\ {result[a].val, result[b].val} = Range(pushed)
    /\ result[a].val # result[b].val
    /\ Len(itemQueue) = 0

\* What the claim rules out: a context of the two is done, the queue is
\* closed, or an item went to a third Pop or a third item was pushed.
Disturbed(a, b) ==
    \/ ctxDone[a] \/ result[a].err = ErrCtx
    \/ ctxDone[b] \/ result[b].err = ErrCtx
    \/ closed
    \/ Len(pushed) > 2
    \/ \E x \in Range(popped) :
          x \notin {result[a].val, result[b].val, pending[a].val, pending[b].val}

\* C7: multi-waiter delivery (N = 2).  Two Pop calls blocked on the empty
\* queue, neither context done, and then two Pushes: under fair scheduling
\* both Pop calls return nil, each with another of the pushed items, and the
\* queue is empty.
C7_MultiWaiterDelivery ==
    \A a, b \in Procs :
       (a # b) =>
          (TwoPopsTwoPushes(a, b) ~> (Delivered(a, b) \/ Disturbed(a, b)))

C7_Witness ==
    \E a, b \in Procs :
       /\ TwoPopsTwoPushes(a, b)
       /\ Delivered(a, b)
       /\ ~Disturbed(a, b)

\* A Pop is blocked, its context not done, while the buffer holds an item.
PopStuck(p) == pc[p] = "pop_select" /\ ~ctxDone[p] /\ Len(itemQueue) > 0
\* A Push is blocked, its context not done, while the buffer has room.
PushStuck(p) ==
    pc[p] = "push_select" /\ ~ctxDone[p] /\ Len(itemQueue) < capacity

\* C8: no lost wakeup.  Under fair scheduling, whenever a Pop is blocked
\* with its context not done and the buffer is not empty, then later on a
\* Pop has taken an item (that call has, or the buffer is empty: an item
\* leaves the buffer only by a Pop) or that context is done; whenever a Push
\* is blocked with its context not done and the buffer is below capacity,
\* then later on a Push has appended an item (that call has, or the buffer is
\* full: an item enters the buffer only by a Push) or that context is done.
C8_NoLostWakeup ==
    \A p \in Procs :
       /\ PopStuck(p)
             ~> \/ op[p] = "Pop" /\ pending[p].err = ErrNil
                \/ Len(itemQueue) = 0
                \/ ctxDone[p]
       /\ PushStuck(p)
             ~> \/ op[p] = "Push" /\ pending[p].err = ErrNil
                \/ Len(itemQueue) >= capacity
                \/ ctxDone[p]

\* The race: a Pop took the cancellation path with its signal already
\* fired, and passes it on while another Pop is blocked and an item waits.
C8_Witness ==
    \E p, q \in Procs :
       /\ pc[p] = "pop_forward"
       /\ PopStuck(q)
       /\ ~waiters[waiterItem[q]].fired

\* The call of p has done what it was called for (its item is appended, or
\* it has removed an item).
Completed(p) == pending[p].err = ErrNil \/ result[p].err = ErrNil

\* C9 as claimed: of two blocked calls of a kind that never cancel, the one
\* that registered its waiter later does not complete before the other.
C9_ServedInRegistrationOrder ==
    \A a, b \in Procs :
       ( /\ ncancels = 0 /\ ~closed
         /\ op[a] = op[b]
         /\ firstW[a] # NoWaiter
         /\ firstW[a] < firstW[b]
         /\ pc[a] # "idle" /\ ~Completed(a) )
       => ~Completed(b)

\* C9, amended: waiters are woken in registration order.  A waiter is fired
\* only once every waiter registered before it on the same list has been
\* fired or has given up; so of two blocked calls of a kind that never
\* cancel, the later one is not woken before the earlier one.
C9_WokenInRegistrationOrder ==
    \A v, w \in DOMAIN waiters :
       ( /\ v < w
         /\ waiters[v].kind = waiters[w].kind
         /\ waiters[w].fired )
       => waiters[v].fired \/ ~waiters[v].waiting

\* Two Pops were blocked together, neither gave up, and both have been woken,
\* the queue open.
C9_Witness ==
    /\ ~closed
    /\ \E v, w \in DOMAIN waiters :
          /\ v < w
          /\ waiters[v].kind = "pop" /\ waiters[w].kind = "pop"
          /\ waiters[v].owner # waiters[w].owner
          /\ waiters[w].pushedBefore = waiters[v].pushedBefore
          /\ waiters[v].fired /\ waiters[v].waiting
          /\ waiters[w].fired /\ waiters[w].waiting

\* C10 as claimed: a call that returns ErrMaxWaiters has never registered a
\* waiter during that call.
C10_MaxWaitersNeverWaited ==
    \A p \in Procs : result[p].err = ErrMaxWaiters => firstW[p] = NoWaiter

\* C10, amended: ErrMaxWaiters comes only from the limit check under
\* q.mutex.  The step in which a call returns ErrMaxWaiters is the one in
\* which it took q.mutex (on entry, or woken from its select) and found the
\* buffer full (Push) or empty (Pop) and the waiter list at its limit; that
\* step registers no waiter.  The call may have been blocked and woken
\* before.
C10_MaxWaitersFromLimitCheck ==
    [][\A p \in Procs :
          (Steps(p) /\ result'[p].err = ErrMaxWaiters)
          => /\ waiters' = waiters
             /\ pushWaitersList' = pushWaitersList
             /\ popWaitersList' = popWaitersList
             /\ qmutex = NoProc /\ qmutex' = NoProc
             /\ \/ /\ op[p] = "Push"
                   /\ \/ pc[p] = "push_lock"
                      \/ pc[p] = "push_select" /\ waiters[waiterItem[p]].chanClosed
                   /\ capacity > 0 /\ Len(itemQueue) >= capacity
                   /\ maxPushWaiters > 0
                   /\ Len(pushWaitersList) >= maxPushWaiters
                \/ /\ op[p] = "Pop"
                   /\ \/ pc[p] = "pop_lock"
                      \/ pc[p] = "pop_select" /\ waiters[waiterItem[p]].chanClosed
                   /\ Len(itemQueue) = 0
                   /\ maxPopWaiters > 0
                   /\ Len(popWaitersList) >= maxPopWaiters]_vars

\* A Pop was blocked, was woken, found the queue empty again and the list
\* at its limit, and returned ErrMaxWaiters.
C10_Witness ==
    \E p \in Procs :
       /\ op[p] = "Pop"
       /\ pc[p] = "idle"
       /\ result[p].err = ErrMaxWaiters
       /\ firstW[p] # NoWaiter

\* The calls of a kind that have registered a waiter and have not returned.
BlockedCalls(o) == {q \in Procs : op[q] = o /\ pc[q] # "idle" /\ firstW[q] # NoWaiter}

\* C11: the waiter limit counts blocked callers.  A Push that returns
\* ErrMaxWaiters does so with at least maxPushWaiters Push calls registered
\* and not yet returned, and a Pop with at least maxPopWaiters such Pop
\* calls; a call that has returned with a cancellation error is not counted.
C11_LimitCountsBlockedCallers ==
    [][\A p \in Procs :
          (Steps(p) /\ result'[p].err = ErrMaxWaiters)
          => /\ op[p] = "Push" => Cardinality(BlockedCalls("Push") \ {p}) >= maxPushWaiters
             /\ op[p] = "Pop" => Cardinality(BlockedCalls("Pop") \ {p}) >= maxPopWaiters]_vars

\* The calls suspended in the select of a kind of call, their signal not fired.
Suspended(o) ==
    {q \in Procs : /\ op[q] = o
                   /\ Blocked(q)
                   /\ ~waiters[waiterItem[q]].fired}

\* C12: waiter-list length bound.  With maxPushWaiters > 0 the push-waiter
\* list never holds more than maxPushWaiters entries, and with
\* maxPopWaiters > 0 the pop-waiter list never more than maxPopWaiters; so
\* no more calls than the limit are suspended with their signal not fired.
C12_WaiterListBound ==
    /\ maxPushWaiters > 0 =>
          /\ Len(pushWaitersList) <= maxPushWaiters
          /\ Cardinality(Suspended("Push")) <= maxPushWaiters
    /\ maxPopWaiters > 0 =>
          /\ Len(popWaitersList) <= maxPopWaiters
          /\ Cardinality(Suspended("Pop")) <= maxPopWaiters

\* The pop-waiter list is at its limit with a Pop suspended, and another Pop
\* that attempted to register has been turned away.
C12_Witness ==
    /\ maxPopWaiters > 0
    /\ Len(popWaitersList) = maxPopWaiters
    /\ Cardinality(Suspended("Pop")) = maxPopWaiters
    /\ \E p \in Procs :
          /\ op[p] = "Pop"
          /\ pc[p] = "idle"
          /\ result[p].err = ErrMaxWaiters

\* C13: no partial effects, item conservation.  The items appended are the
\* items removed followed by the items still buffered, and no item is
\* appended twice.  A Push appends its item at most once and returns nil
\* exactly when it has appended it; a Pop removes at most one item, the
\* front one, and returns it with nil exactly when it has removed it, and
\* otherwise returns an error and no item; nothing else changes the items.
C13_NoPartialEffects ==
    /\ [](/\ pushed = popped \o itemQueue
          /\ \A i, j \in DOMAIN pushed : pushed[i] = pushed[j] => i = j)
    /\ [][/\ (\A p \in Procs : ~Steps(p)) =>
                /\ pushed' = pushed /\ popped' = popped /\ itemQueue' = itemQueue
          /\ \A p \in Procs :
                Steps(p) =>
                   /\ pending[p].err = ErrNil => (Returns(p) \/ pending'[p] = pending[p])
                   /\ op[p] = "Push" =>
                         /\ popped' = popped
                         /\ pushed' # pushed =>
                               /\ pushed' = Append(pushed, item[p])
                               /\ pending[p] = NoResult
                               /\ pending'[p].err = ErrNil
                         /\ Returns(p) =>
                               /\ result'[p].err = ErrNil <=> pending[p].err = ErrNil
                               /\ result'[p].err = ErrNil <=> item[p] \in Range(pushed)
                   /\ op[p] = "Pop" =>
                         /\ pushed' = pushed
                         /\ popped' # popped =>
                               /\ popped' = Append(popped, Head(itemQueue))
                               /\ pending[p] = NoResult
                               /\ pending'[p] = Ret(ErrNil, Head(itemQueue))
                         /\ Returns(p) =>
                               IF pending[p].err = ErrNil
                               THEN result'[p] = pending[p]
                               ELSE /\ result'[p].err # ErrNil
                                    /\ result'[p].val = NoItem]_vars

\* A Push was cancelled and appended nothing, an item has been removed by a
\* Pop, and an item is still buffered.
C13_Witness ==
    /\ Len(popped) >= 1
    /\ Len(itemQueue) >= 1
    /\ \E p \in Procs :
          /\ op[p] = "Push"
          /\ pc[p] = "idle"
          /\ result[p].err = ErrCtx

\* p is at q.mutex.Lock().
WantsQueueLock(p) ==
    \/ pc[p] \in {"push_lock", "pop_lock", "push_forward", "pop_forward"}
    \/ Blocked(p) /\ waiters[waiterItem[p]].chanClosed

\* p is at w.mutex.Lock() of waiter w, or will be with no step in between.
WantsWaiterLock(p, w) ==
    \/ pc[p] = "unblock" /\ UList(p) # <<>> /\ w = Head(UList(p))
    \/ Blocked(p) /\ w = waiterItem[p]

\* A call is in progress and is not just waiting for its signal or context.
InFlight(p) ==
    /\ pc[p] # "idle"
    /\ ~(Blocked(p) /\ ~waiters[waiterItem[p]].chanClosed /\ ~ctxDone[p])

\* C14: deadlock freedom.  While a call is in flight some call can take a
\* step.  A call suspended in its select holds neither q.mutex nor the
\* mutex of its waiter.  The wake path takes w.mutex with q.mutex held
\* and the cancel path holds w.mutex without q.mutex and releases it
\* before it takes q.mutex: a goroutine at q.mutex.Lock() holds no waiter
\* mutex that any goroutine will ever ask for.
C14_DeadlockFreedom ==
    /\ (\E p \in Procs : InFlight(p)) => \E p \in Procs : ENABLED Progress(p)
    /\ \A p \in Procs :
          /\ Blocked(p) => qmutex # p /\ waiters[waiterItem[p]].mutex # p
          /\ pc[p] = "unblock_check" => qmutex = p /\ waiters[uw[p]].mutex = p
          /\ pc[p] \in {"push_cancel", "pop_cancel"} =>
                qmutex # p /\ waiters[waiterItem[p]].mutex = p
          /\ WantsQueueLock(p) =>
                \A w \in DOMAIN waiters :
                   waiters[w].mutex = p =>
                      /\ w \notin Listed
                      /\ \A q \in Procs : ~WantsWaiterLock(q, w)

\* The two paths meet: a cancelling Pop holds the mutex of its waiter while
\* a Push holding q.mutex is at that waiter's w.mutex.Lock().
C14_Witness ==
    \E p, q \in Procs :
       /\ pc[p] = "pop_cancel"
       /\ pc[q] = "unblock"
       /\ qmutex = q
       /\ WantsWaiterLock(q, waiterItem[p])
       /\ waiters[waiterItem[p]].mutex = p

\* C15: an unbounded Push never waits.  With capacity = 0 no push waiter is
\* ever registered; a Push that takes q.mutex on an open queue appends its
\* item in that step, registering nothing, whatever the length of the
\* buffer, maxPushWaiters and its context, and returns nil.  A Pop that
\* takes q.mutex on a non-empty buffer removes the front item in that step,
\* registering nothing, and returns it with nil.
C15_UnboundedPushNeverWaits ==
    /\ [](capacity = 0 => \A w \in DOMAIN waiters : waiters[w].kind # "push")
    /\ [][\A p \in Procs :
             Steps(p) =>
                /\ (op[p] = "Push" /\ pc[p] = "push_lock" /\ capacity = 0 /\ ~closed) =>
                      /\ itemQueue' = Append(itemQueue, item[p])
                      /\ pending'[p].err = ErrNil
                      /\ waiters' = waiters
                      /\ pushWaitersList' = pushWaitersList
                /\ (op[p] = "Push" /\ Returns(p) /\ capacity = 0 /\ ~closed) =>
                      result'[p].err = ErrNil
                /\ (op[p] = "Pop" /\ pc[p] = "pop_lock" /\ itemQueue # <<>>) =>
                      /\ itemQueue' = Tail(itemQueue)
                      /\ pending'[p] = Ret(ErrNil, Head(itemQueue))
                      /\ waiters' = waiters
                      /\ popWaitersList' = popWaitersList
                /\ (op[p] = "Pop" /\ Returns(p) /\ pending[p].err = ErrNil) =>
                      result'[p] = pending[p]]_vars

\* A Push whose context was done before it took q.mutex has appended its
\* item behind another one, on an unbounded queue with a push-waiter limit.
C15_Witness ==
    \E p \in Procs :
       /\ op[p] = "Push"
       /\ pc[p] = "unblock"
       /\ pending[p].err = ErrNil
       /\ ctxDone[p]
       /\ capacity = 0
       /\ maxPushWaiters > 0
       /\ ~closed
       /\ Len(itemQueue) >= 2
       /\ itemQueue[Len(itemQueue)] = item[p]

\* C16: wake-next wakes exactly one, oldest first.  A pass of
\* unblockNextWaiterLocked on an empty list returns and fires nothing.  On
\* a non-empty list it removes the front entry and nothing else.  An entry
\* found with waiting = false is discarded unfired and the call goes on;
\* an entry found with waiting = true is fired, it alone, and the call
\* returns, so it fires at most one.  The fired entry is the oldest still
\* interested one: every older waiter of its list is out of the list and
\* has been fired or has given up, and the entries left are younger and
\* are left as they were.
C16_WakeNextOldestFirst ==
    [][\A p \in Procs :
          Steps(p) =>
             /\ (pc[p] = "unblock" /\ UList(p) = <<>>) =>
                   /\ Returns(p)
                   /\ waiters' = waiters
                   /\ pushWaitersList' = pushWaitersList
                   /\ popWaitersList' = popWaitersList
             /\ (pc[p] = "unblock" /\ UList(p) # <<>>) =>
                   /\ pc'[p] = "unblock_check"
                   /\ uw'[p] = Head(UList(p))
                   /\ IF ulist[p] = "push"
                      THEN /\ pushWaitersList' = Tail(pushWaitersList)
                           /\ popWaitersList' = popWaitersList
                      ELSE /\ popWaitersList' = Tail(popWaitersList)
                           /\ pushWaitersList' = pushWaitersList
                   /\ \A w \in DOMAIN waiters :
                         /\ waiters'[w].fired = waiters[w].fired
                         /\ waiters'[w].chanClosed = waiters[w].chanClosed
                         /\ waiters'[w].waiting = waiters[w].waiting
             /\ pc[p] = "unblock_check" =>
                   /\ pushWaitersList' = pushWaitersList
                   /\ popWaitersList' = popWaitersList
                   /\ \A w \in DOMAIN waiters : w # uw[p] => waiters'[w] = waiters[w]
                   /\ IF waiters[uw[p]].waiting
                      THEN /\ ~waiters[uw[p]].fired
                           /\ waiters'[uw[p]].fired
                           /\ waiters'[uw[p]].chanClosed
                           /\ Returns(p)
                           /\ \A v \in DOMAIN waiters :
                                 (v < uw[p] /\ waiters[v].kind = waiters[uw[p]].kind) =>
                                    /\ v \notin Listed
                                    /\ waiters[v].fired \/ ~waiters[v].waiting
                           /\ \A v \in Range(UList(p)) : v > uw[p]
                      ELSE /\ ~waiters'[uw[p]].fired
                           /\ ~waiters'[uw[p]].chanClosed
                           /\ pc'[p] = "unblock"]_vars

\* A wake-next has discarded a pop waiter whose call had given up and has
\* fired the next one, still interested.
C16_Witness ==
    /\ ~closed
    /\ \E v, w \in DOMAIN waiters :
          /\ v < w
          /\ waiters[v].kind = "pop" /\ waiters[w].kind = "pop"
          /\ ~waiters[v].waiting /\ ~waiters[v].fired
          /\ waiters[v].mutex \in Procs
          /\ waiters[w].fired /\ waiters[w].waiting
          /\ pc[waiters[v].mutex] = "idle"

\* The waiter list of the kind of call p is in.
OwnList(p) == IF op[p] = "Push" THEN "push" ELSE "pop"

\* C17: notification forwarding.  A call on the cancellation path that
\* finds fired = true does not return yet: it takes q.mutex and runs
\* wake-next on the list of its own kind, and returns the cancellation
\* error only from that wake-next, which has then fired the oldest waiter
\* still interested or found none left.  A call that finds fired = false
\* returns the cancellation error at once, taking no q.mutex and touching
\* neither list.
C17_NotificationForwarding ==
    [][\A p \in Procs :
          Steps(p) =>
             /\ pc[p] \in {"push_cancel", "pop_cancel"} =>
                   /\ pushWaitersList' = pushWaitersList
                   /\ popWaitersList' = popWaitersList
                   /\ qmutex' = qmutex /\ qmutex # p
                   /\ IF waiters[waiterItem[p]].fired
                      THEN /\ pc'[p] = IF op[p] = "Push" THEN "push_forward"
                                                        ELSE "pop_forward"
                           /\ result'[p] = result[p]
                      ELSE /\ Returns(p)
                           /\ result'[p].err = ErrCtx
             /\ pc[p] \in {"push_forward", "pop_forward"} =>
                   /\ qmutex = NoProc /\ qmutex' = p
                   /\ pc'[p] = "unblock"
                   /\ ulist'[p] = OwnList(p)
                   /\ pending'[p].err = ErrCtx
                   /\ result'[p] = result[p]
             /\ ( /\ Returns(p) /\ result'[p].err = ErrCtx
                  /\ waiters[waiterItem[p]].fired ) =>
                   /\ qmutex = p /\ qmutex' = NoProc
                   /\ ulist[p] = OwnList(p)
                   /\ \/ pc[p] = "unblock" /\ UList(p) = <<>>
                      \/ /\ pc[p] = "unblock_check"
                         /\ waiters[uw[p]].kind = OwnList(p)
                         /\ waiters[uw[p]].waiting
                         /\ waiters'[uw[p]].fired]_vars

\* A cancelled Push that found its waiter fired is forwarding: it holds
\* q.mutex and has taken the next push waiter, which is still interested.
C17_Witness ==
    \E p \in Procs :
       /\ op[p] = "Push"
       /\ pc[p] = "unblock_check"
       /\ pending[p].err = ErrCtx
       /\ waiters[waiterItem[p]].fired
       /\ ~waiters[waiterItem[p]].waiting
       /\ waiters[uw[p]].kind = "push"
       /\ waiters[uw[p]].waiting

\* The call that registered waiter w has returned or has moved on to
\* another pass of its loop.
MovedOn(w) ==
    \/ pc[waiters[w].owner] = "idle"
    \/ waiterItem[waiters[w].owner] # w

\* C18 as claimed: exactly one of the two outcomes happens to a waiter,
\* fired by a wake or abandoned by cancellation: never both, and never
\* neither once its call has returned.
C18_ExactlyOneOutcome ==
    \A w \in DOMAIN waiters :
       /\ ~(waiters[w].fired /\ ~waiters[w].waiting)
       /\ MovedOn(w) => (waiters[w].fired \/ ~waiters[w].waiting)

\* C18, amended: at least one of the two outcomes has happened to a waiter
\* once its call has moved on, and each happens at most once: fired is set
\* only on a waiter still waiting whose channel is open, and is never
\* unset; waiting is cleared only by the waiter's own call on its
\* cancellation path, and is never set again.  Both happen in the race in
\* which the wake comes first: the call that then clears waiting finds
\* fired and forwards the notification instead of returning.
C18_WaiterOutcome ==
    /\ [](\A w \in DOMAIN waiters :
             MovedOn(w) => (waiters[w].fired \/ ~waiters[w].waiting))
    /\ [][\A w \in DOMAIN waiters :
             /\ waiters[w].fired => waiters'[w].fired
             /\ waiters[w].chanClosed => waiters'[w].chanClosed
             /\ ~waiters[w].waiting => ~waiters'[w].waiting
             /\ (~waiters[w].fired /\ waiters'[w].fired) =>
                   /\ waiters[w].waiting
                   /\ ~waiters[w].chanClosed
                   /\ waiters'[w].chanClosed
             /\ (waiters[w].waiting /\ ~waiters'[w].waiting) =>
                   LET o == waiters[w].owner IN
                   /\ pc[o] \in {"push_cancel", "pop_cancel"}
                   /\ waiterItem[o] = w
                   /\ IF waiters[w].fired
                      THEN pc'[o] \in {"push_forward", "pop_forward"}
                      ELSE pc'[o] = "idle" /\ result'[o].err = ErrCtx]_vars

\* Both outcomes happened to one waiter: it was fired by a wake and then
\* abandoned by its call, which has returned the cancellation error.
C18_Witness ==
    /\ ~closed
    /\ \E w \in DOMAIN waiters :
          /\ waiters[w].fired
          /\ ~waiters[w].waiting
          /\ pc[waiters[w].owner] = "idle"
          /\ result[waiters[w].owner].err = ErrCtx

\* C19: single fire.  A waiter is at most once in the two lists together,
\* and in the list of its kind; a waiter in a list has not been fired and
\* its channel is open; and the waiter a wake-next has taken and is about
\* to close has its channel open, so that no channel is closed twice.
C19_SingleFire ==
    LET all == pushWaitersList \o popWaitersList IN
    /\ \A i, j \in DOMAIN all : all[i] = all[j] => i = j
    /\ \A w \in Range(pushWaitersList) : waiters[w].kind = "push"
    /\ \A w \in Range(popWaitersList) : waiters[w].kind = "pop"
    /\ \A w \in Listed : ~waiters[w].fired /\ ~waiters[w].chanClosed
    /\ \A p \in Procs :
          pc[p] = "unblock_check" =>
             /\ ~waiters[uw[p]].chanClosed
             /\ ~waiters[uw[p]].fired
             /\ uw[p] \notin Listed

\* A cancelled Push whose waiter was fired and taken off the list is about
\* to forward the notification to the push waiters still listed.
C19_Witness ==
    \E p \in Procs :
       /\ pc[p] = "push_forward"
       /\ waiters[waiterItem[p]].chanClosed
       /\ waiterItem[p] \notin Listed
       /\ pushWaitersList # <<>>

\* C20: cancellation terminates the call.  Under fair scheduling a call
\* whose context is done returns: with nil if it completed its operation,
\* or with ErrMaxWaiters or the cancellation error; this also when its
\* signal fired as well and the signal branch was taken first.
C20_CancellationTerminates ==
    \A p \in Procs :
       ctxDone[p] ~> ( /\ pc[p] = "idle"
                       /\ result[p].err \in {ErrNil, ErrMaxWaiters, ErrCtx} )

\* A Pop whose context is done and whose signal had fired took the signal
\* branch, found the queue empty again and registered a second waiter.
C20_Witness ==
    \E p \in Procs :
       /\ op[p] = "Pop"
       /\ ctxDone[p]
       /\ pc[p] = "pop_select"
       /\ firstW[p] # NoWaiter
       /\ waiterItem[p] # firstW[p]
       /\ waiters[firstW[p]].fired
       /\ ~waiters[waiterItem[p]].fired

====
